---- MODULE Spec2Model ----
(***************************************************************************)
(* Model of the PDF collection analyser (src/src/pdf_processor.rs,         *)
(* src/src/main.rs).  Strings are sequences of characters; a character is  *)
(* a one-character TLA+ string, except "U+0661" (ARABIC-INDIC DIGIT ONE),  *)
(* the one character of the model whose UTF-8 encoding is longer than one  *)
(* byte.                                                                   *)
(***************************************************************************)
EXTENDS Integers, Sequences, FiniteSets, TLC

\* ---------------------------------------------------------------- bounds
MaxDocs == 2
MaxPages == 1
MaxLen == 4
MaxRuns == 4
MaxCollections == 2

\* ----------------------------------------------------------------- state
VARIABLES
    persona_role,         \* input.persona.role
    job_task,             \* input.job_to_be_done.task
    n_docs,               \* input.documents.len()
    docs,                 \* what the documents handled so far were and met
    pc,                   \* "loop" inside the for loop, "done" after return
    extracted_sections,   \* Vec<ExtractedSection>
    subsection_analysis,  \* Vec<SubsectionAnalysis>
    result,               \* "running", "ok" (Ok(())) or "err" (Err)
    written,              \* the output file was written
    page_text,            \* normalizer runs: the raw page text
    cleaned_text,         \* clean_extracted_text(&page_text)
    recleaned_text,       \* clean_extracted_text(&cleaned_text)
    clean_pc,             \* "idle", "ops", "raw", "cleaned", "recleaned", "segmented"
    content_ops,          \* page runs: content.operations(resolver) of the page
    page_paragraphs,      \* page runs: the paragraphs find_relevant_content builds
    n_collections,        \* main: collections.len()
    collection,           \* main: the collection the for loop is at
    outputs,              \* main: the collections whose output file was written
    main_result           \* main: "running", "ok" (Ok(())) or "err" (Err)

vars == <<persona_role, job_task, n_docs, docs, pc, extracted_sections,
          subsection_analysis, result, written, page_text, cleaned_text, recleaned_text,
          clean_pc, content_ops, page_paragraphs, n_collections, collection, outputs,
          main_result>>

request_vars == <<persona_role, job_task, n_docs>>

clean_vars == <<page_text, cleaned_text, recleaned_text, clean_pc>>

page_vars == <<content_ops, page_paragraphs>>

main_vars == <<n_collections, collection, outputs, main_result>>

collection_vars == <<persona_role, job_task, n_docs, docs, pc, extracted_sections,
                     subsection_analysis, result, written>>

\* ------------------------------------------------------------ characters
UpperSeq ==
    <<"A","B","C","D","E","F","G","H","I","J","K","L","M","N","O","P","Q","R","S","T","U",
    "V","W","X","Y","Z">>

LowerSeq ==
    <<"a","b","c","d","e","f","g","h","i","j","k","l","m","n","o","p","q","r","s","t","u",
    "v","w","x","y","z">>

UpperSet == {UpperSeq[i] : i \in 1..26}

LowerSet == {LowerSeq[i] : i \in 1..26}

\* char::is_numeric on the characters of the model (regex \d, Unicode Nd)
DigitSet == {"0", "1", "2", "3", "4", "5", "6", "7", "8", "9", "U+0661"}

\* char::is_whitespace / regex \s on the characters of the model
WhiteSpace == {" ", "\n", "\t"}

LetterSet == UpperSet \cup LowerSet

\* char::len_utf8
Utf8Len(c) == IF c = "U+0661" THEN 2 ELSE 1

\* char::is_alphanumeric
is_alphanumeric(c) == c \in LetterSet \cup DigitSet

\* char::to_lowercase
ToLowerChar(c) ==
    IF c \in UpperSet THEN LowerSeq[CHOOSE i \in 1..26 : UpperSeq[i] = c] ELSE c

\* --------------------------------------------------------------- strings
SetMin(S) == CHOOSE x \in S : \A y \in S : x <= y

SetMax(S) == CHOOSE x \in S : \A y \in S : x >= y

NonEmpty(s) == s # <<>>

\* str::to_lowercase
to_lowercase(s) == IF s = <<>> THEN <<>> ELSE [i \in 1..Len(s) |-> ToLowerChar(s[i])]

\* str::len: the length in bytes of the UTF-8 encoding (characters of the
\* model take one byte or two)
ByteLen(s) == Len(s) + Cardinality({i \in 1..Len(s) : Utf8Len(s[i]) = 2})

\* Index of the first / last character of s that is not in the set, 0 if none
FirstOutside(s, set) ==
    IF \A i \in 1..Len(s) : s[i] \in set THEN 0
    ELSE CHOOSE i \in 1..Len(s) : s[i] \notin set /\ \A j \in 1..(i - 1) : s[j] \in set

LastOutside(s, set) ==
    IF \A i \in 1..Len(s) : s[i] \in set THEN 0
    ELSE CHOOSE i \in 1..Len(s) : s[i] \notin set /\ \A j \in (i + 1)..Len(s) : s[j] \in set

\* str::trim
Trim(s) ==
    IF FirstOutside(s, WhiteSpace) = 0 THEN <<>>
    ELSE SubSeq(s, FirstOutside(s, WhiteSpace), LastOutside(s, WhiteSpace))

AllChars == LetterSet \cup DigitSet \cup WhiteSpace
              \cup {".", ":", "!", "?", ",", ";", "-", "'", "(", ")", "/"}

\* str::trim_matches(|c| !c.is_alphanumeric())
TrimNonAlnum(s) ==
    LET other == {c \in AllChars : ~is_alphanumeric(c)}
    IN  IF FirstOutside(s, other) = 0 THEN <<>>
        ELSE SubSeq(s, FirstOutside(s, other), LastOutside(s, other))

\* str::contains
Contains(hay, needle) ==
    \E i \in 0..(Len(hay) - Len(needle)) : \A j \in 1..Len(needle) : hay[i + j] = needle[j]

\* str::ends_with(char)
EndsWith(s, c) == Len(s) > 0 /\ s[Len(s)] = c

\* str::split(char): the pieces between the separators, empty pieces included
RECURSIVE SplitOn(_, _)
SplitOn(s, c) ==
    LET pos == {i \in 1..Len(s) : s[i] = c}
    IN  IF pos = {} THEN <<s>>
        ELSE LET p == SetMin(pos)
             IN  <<SubSeq(s, 1, p - 1)>> \o SplitOn(SubSeq(s, p + 1, Len(s)), c)

\* str::split(&str) for the separator "\n\n"
RECURSIVE SplitOnBlankLine(_)
SplitOnBlankLine(s) ==
    LET pos == {i \in 1..(Len(s) - 1) : s[i] = "\n" /\ s[i + 1] = "\n"}
    IN  IF pos = {} THEN <<s>>
        ELSE LET p == SetMin(pos)
             IN  <<SubSeq(s, 1, p - 1)>> \o SplitOnBlankLine(SubSeq(s, p + 2, Len(s)))

\* str::lines: split at "\n"; a final empty piece is not a line
Lines(s) ==
    LET pieces == SplitOn(s, "\n")
    IN  IF pieces[Len(pieces)] = <<>> THEN SubSeq(pieces, 1, Len(pieces) - 1) ELSE pieces

\* str::split_whitespace: the maximal runs of non-whitespace characters
RECURSIVE split_whitespace(_)
split_whitespace(s) ==
    LET t == Trim(s)
        ws == {i \in 1..Len(t) : t[i] \in WhiteSpace}
    IN  IF t = <<>> THEN <<>>
        ELSE IF ws = {} THEN <<t>>
        ELSE <<SubSeq(t, 1, SetMin(ws) - 1)>>
                 \o split_whitespace(SubSeq(t, SetMin(ws) + 1, Len(t)))

\* [T]::join(sep)
RECURSIVE JoinWith(_, _)
JoinWith(parts, sep) ==
    IF parts = <<>> THEN <<>>
    ELSE IF Len(parts) = 1 THEN parts[1]
    ELSE parts[1] \o sep \o JoinWith(Tail(parts), sep)

MapTrim(parts) == IF parts = <<>> THEN <<>> ELSE [i \in 1..Len(parts) |-> Trim(parts[i])]

\* re.replace_all for r"\s+" and " ": every maximal run of whitespace
\* becomes one space (computed by halving the range lo..hi)
RECURSIVE CollapseRange(_, _, _)
CollapseRange(s, lo, hi) ==
    IF lo > hi THEN <<>>
    ELSE IF lo = hi
         THEN IF s[lo] \notin WhiteSpace THEN <<s[lo]>>
              ELSE IF lo > 1 /\ s[lo - 1] \in WhiteSpace THEN <<>> ELSE <<" ">>
         ELSE CollapseRange(s, lo, (lo + hi) \div 2)
                  \o CollapseRange(s, (lo + hi) \div 2 + 1, hi)

CollapseWhitespace(s) == CollapseRange(s, 1, Len(s))

\* ------------------------------------------------------- text normalizer
clean_extracted_text(raw) ==
    LET cleaned == JoinWith(SelectSeq(MapTrim(Lines(raw)), NonEmpty), <<" ">>)
        normalized == CollapseWhitespace(cleaned)
        sentences == SelectSeq(MapTrim(SplitOn(normalized, ".")), NonEmpty)
    IN  JoinWith(sentences, <<".", " ">>)
            \o (IF EndsWith(normalized, ".") THEN <<>> ELSE <<".">>)

\* ------------------------------------------------------ heading patterns
\* Offsets are 0-based: the character after offset p is text[p + 1].

\* The character classes of the five heading patterns
InClass(kind, c) ==
    CASE kind = "digit" -> c \in DigitSet
      [] kind = "space" -> c \in WhiteSpace
      [] kind = "lower" -> c \in LowerSet
      [] kind = "letter_space" -> c \in LetterSet \cup WhiteSpace
      [] kind = "upper_space" -> c \in UpperSet \cup WhiteSpace
      [] kind = "not_dot" -> c # "."
      [] kind = "not_newline" -> c # "\n"

\* (?m)^
AtLineStart(text, p) == p = 0 \/ text[p] = "\n"

\* (?m)$
AtLineEnd(text, p) == p = Len(text) \/ text[p + 1] = "\n"

\* Length of the longest run of characters of the class after offset p
RunLen(text, p, kind) ==
    IF \A i \in (p + 1)..Len(text) : InClass(kind, text[i]) THEN Len(text) - p
    ELSE (CHOOSE i \in (p + 1)..Len(text) :
             /\ ~InClass(kind, text[i])
             /\ \A j \in (p + 1)..(i - 1) : InClass(kind, text[j])) - 1 - p

IsUpperAt(text, p) == p < Len(text) /\ text[p + 1] \in UpperSet

NoMatch == [cap_end |-> -1, match_end |-> -1]

\* The common suffix :?\s*$ tried at offset q: the offset where the match
\* ends, or -1.  \s* is greedy and gives characters back until $ holds.
LineTail(text, q) ==
    LET q1 == IF q < Len(text) /\ text[q + 1] = ":" THEN q + 1 ELSE q
        w == RunLen(text, q1, "space")
    IN  IF \A k \in 0..w : ~AtLineEnd(text, q1 + k) THEN -1
        ELSE q1 + (CHOOSE k \in 0..w :
                      /\ AtLineEnd(text, q1 + k)
                      /\ \A j \in (k + 1)..w : ~AtLineEnd(text, q1 + j))

\* A greedy repetition (at least min_n characters of the class) that closes
\* the capture group, followed by :?\s*$: the longest repetition for which
\* the suffix matches wins.
GreedyThenTail(text, p, min_n, kind) ==
    LET run == RunLen(text, p, kind)
    IN  IF \A n \in min_n..run : LineTail(text, p + n) = -1 THEN NoMatch
        ELSE LET back == CHOOSE b \in 0..(run - min_n) :
                             /\ LineTail(text, p + run - b) # -1
                             /\ \A j \in 0..(b - 1) : LineTail(text, p + run - j) = -1
             IN  [cap_end |-> p + run - back, match_end |-> LineTail(text, p + run - back)]

\* r"(?m)^([A-Z][A-Za-z\s]{3,}):?\s*$"
MatchCapitalized(text, s) ==
    IF IsUpperAt(text, s) THEN GreedyThenTail(text, s + 1, 3, "letter_space") ELSE NoMatch

\* r"(?m)^(\d+\.?\s+[A-Z][A-Za-z\s]+):?\s*$"
MatchNumbered(text, s) ==
    LET d == RunLen(text, s, "digit")
        a == s + d
        b == IF a < Len(text) /\ text[a + 1] = "." THEN a + 1 ELSE a
        w == RunLen(text, b, "space")
    IN  IF d >= 1 /\ w >= 1 /\ IsUpperAt(text, b + w)
        THEN GreedyThenTail(text, b + w + 1, 1, "letter_space")
        ELSE NoMatch

ChapterWord ==
    <<"C","h","a","p","t","e","r">>

\* r"(?m)^(Chapter\s+\d+[^.]*):?\s*$"
MatchChapter(text, s) ==
    LET a == s + Len(ChapterWord)
        w == RunLen(text, a, "space")
        d == RunLen(text, a + w, "digit")
    IN  IF a <= Len(text) /\ SubSeq(text, s + 1, a) = ChapterWord /\ w >= 1 /\ d >= 1
        THEN GreedyThenTail(text, a + w + d, 0, "not_dot")
        ELSE NoMatch

\* r"(?m)^([A-Z\s]{4,}):?\s*$"
MatchAllCaps(text, s) == GreedyThenTail(text, s, 4, "upper_space")

\* r"(?m)^([A-Z][a-z]+\s+[A-Z][a-z]+.*):?\s*$"
MatchTitleCase(text, s) ==
    LET l1 == RunLen(text, s + 1, "lower")
        w == RunLen(text, s + 1 + l1, "space")
        c == s + 1 + l1 + w
        l2 == RunLen(text, c + 1, "lower")
    IN  IF IsUpperAt(text, s) /\ l1 >= 1 /\ w >= 1 /\ IsUpperAt(text, c) /\ l2 >= 1
        THEN GreedyThenTail(text, c + 1 + l2, 0, "not_newline")
        ELSE NoMatch

\* heading_patterns, in the order of the vec!
NumPatterns == 5

MatchAt(k, text, s) ==
    CASE k = 1 -> MatchCapitalized(text, s)
      [] k = 2 -> MatchNumbered(text, s)
      [] k = 3 -> MatchChapter(text, s)
      [] k = 4 -> MatchAllCaps(text, s)
      [] k = 5 -> MatchTitleCase(text, s)

\* re.captures_iter(&text): group 1 of the successive leftmost matches
RECURSIVE captures_iter(_, _, _)
captures_iter(k, text, pos) ==
    LET starts == {s \in pos..(Len(text) - 1) :
                      AtLineStart(text, s) /\ MatchAt(k, text, s) # NoMatch}
    IN  IF starts = {} THEN <<>>
        ELSE LET s == SetMin(starts)
                 m == MatchAt(k, text, s)
             IN  <<SubSeq(text, s + 1, m.cap_end)>> \o captures_iter(k, text, m.match_end)

\* if heading.len() > 3 && heading.len() < 100
heading_len_ok(heading) == ByteLen(heading) > 3 /\ ByteLen(heading) < 100

\* The headings one pattern yields on the text, trimmed and length-filtered
PatternHeadings(k, text) ==
    SelectSeq(MapTrim(captures_iter(k, text, 0)), heading_len_ok)

\* The loop over heading_patterns: the titles in discovery order
RECURSIVE HeadingsFrom(_, _)
HeadingsFrom(k, text) ==
    IF k > NumPatterns THEN <<>>
    ELSE PatternHeadings(k, text) \o HeadingsFrom(k + 1, text)

\* ------------------------------------------------------ relevance filter
TravelPlannerName ==
    <<"t","r","a","v","e","l"," ","p","l","a","n","n","e","r">>

HrProfessionalName ==
    <<"h","r"," ","p","r","o","f","e","s","s","i","o","n","a","l">>

FoodContractorName ==
    <<"f","o","o","d"," ","c","o","n","t","r","a","c","t","o","r">>

\* hotel, restaurant, itinerary, transport, budget, beach, coast, city, travel, plan,
\* friends, day trip, accommodation, sightseeing, tour, itinerary, flight, train, booking, reservation
TravelPlannerKeywords ==
    <<<<"h","o","t","e","l">>,
      <<"r","e","s","t","a","u","r","a","n","t">>,
      <<"i","t","i","n","e","r","a","r","y">>,
      <<"t","r","a","n","s","p","o","r","t">>,
      <<"b","u","d","g","e","t">>,
      <<"b","e","a","c","h">>,
      <<"c","o","a","s","t">>,
      <<"c","i","t","y">>,
      <<"t","r","a","v","e","l">>,
      <<"p","l","a","n">>,
      <<"f","r","i","e","n","d","s">>,
      <<"d","a","y"," ","t","r","i","p">>,
      <<"a","c","c","o","m","m","o","d","a","t","i","o","n">>,
      <<"s","i","g","h","t","s","e","e","i","n","g">>,
      <<"t","o","u","r">>,
      <<"i","t","i","n","e","r","a","r","y">>,
      <<"f","l","i","g","h","t">>,
      <<"t","r","a","i","n">>,
      <<"b","o","o","k","i","n","g">>,
      <<"r","e","s","e","r","v","a","t","i","o","n">>>>

\* form, fillable, signature, compliance, onboarding, field, text box, checkbox, dropdown, required,
\* document, approval, electronic, sign, pdf, employee, new hire, paperwork, tax form, contract
HrProfessionalKeywords ==
    <<<<"f","o","r","m">>,
      <<"f","i","l","l","a","b","l","e">>,
      <<"s","i","g","n","a","t","u","r","e">>,
      <<"c","o","m","p","l","i","a","n","c","e">>,
      <<"o","n","b","o","a","r","d","i","n","g">>,
      <<"f","i","e","l","d">>,
      <<"t","e","x","t"," ","b","o","x">>,
      <<"c","h","e","c","k","b","o","x">>,
      <<"d","r","o","p","d","o","w","n">>,
      <<"r","e","q","u","i","r","e","d">>,
      <<"d","o","c","u","m","e","n","t">>,
      <<"a","p","p","r","o","v","a","l">>,
      <<"e","l","e","c","t","r","o","n","i","c">>,
      <<"s","i","g","n">>,
      <<"p","d","f">>,
      <<"e","m","p","l","o","y","e","e">>,
      <<"n","e","w"," ","h","i","r","e">>,
      <<"p","a","p","e","r","w","o","r","k">>,
      <<"t","a","x"," ","f","o","r","m">>,
      <<"c","o","n","t","r","a","c","t">>>>

\* recipe, vegetarian, buffet, ingredients, preparation, gluten-free, menu, dish, cooking, serving,
\* allergy, dietary, vegan, meal, course, appetizer, main course, dessert, salad, soup
FoodContractorKeywords ==
    <<<<"r","e","c","i","p","e">>,
      <<"v","e","g","e","t","a","r","i","a","n">>,
      <<"b","u","f","f","e","t">>,
      <<"i","n","g","r","e","d","i","e","n","t","s">>,
      <<"p","r","e","p","a","r","a","t","i","o","n">>,
      <<"g","l","u","t","e","n","-","f","r","e","e">>,
      <<"m","e","n","u">>,
      <<"d","i","s","h">>,
      <<"c","o","o","k","i","n","g">>,
      <<"s","e","r","v","i","n","g">>,
      <<"a","l","l","e","r","g","y">>,
      <<"d","i","e","t","a","r","y">>,
      <<"v","e","g","a","n">>,
      <<"m","e","a","l">>,
      <<"c","o","u","r","s","e">>,
      <<"a","p","p","e","t","i","z","e","r">>,
      <<"m","a","i","n"," ","c","o","u","r","s","e">>,
      <<"d","e","s","s","e","r","t">>,
      <<"s","a","l","a","d">>,
      <<"s","o","u","p">>>>

\* let keywords = match persona.to_lowercase().as_str() { ... }
PersonaKeywords(persona_str) ==
    LET p == to_lowercase(persona_str)
    IN  CASE p = TravelPlannerName -> TravelPlannerKeywords
          [] p = HrProfessionalName -> HrProfessionalKeywords
          [] p = FoodContractorName -> FoodContractorKeywords
          [] OTHER -> <<>>

MapTrimNonAlnum(parts) ==
    IF parts = <<>> THEN <<>> ELSE [i \in 1..Len(parts) |-> TrimNonAlnum(parts[i])]

\* let task_keywords: Vec<String> = task.to_lowercase().split_whitespace() ...
TaskKeywords(task_str) ==
    SelectSeq(MapTrimNonAlnum(split_whitespace(to_lowercase(task_str))), NonEmpty)

\* kws.iter().filter(|kw| text.contains(kw)).count(), repeats counted
MatchCount(kws, text) == Cardinality({i \in 1..Len(kws) : Contains(text, kws[i])})

LongerThan20(p) == ByteLen(p) > 20

LongerThan50(p) == ByteLen(p) > 50

TrimLongerThan15(s) == ByteLen(Trim(s)) > 15

\* sentences.chunks(3), each chunk joined with ". " and closed with "."
RECURSIVE SentenceChunks(_)
SentenceChunks(sentences) ==
    IF sentences = <<>> THEN <<>>
    ELSE LET n == IF Len(sentences) < 3 THEN Len(sentences) ELSE 3
         IN  <<JoinWith(SubSeq(sentences, 1, n), <<".", " ">>) \o <<".">>>>
                 \o SentenceChunks(SubSeq(sentences, n + 1, Len(sentences)))

\* The paragraphs of one page text
Paragraphs(text) ==
    LET double_newline_paras == SelectSeq(SplitOnBlankLine(text), LongerThan20)
        sentences == SelectSeq(SplitOn(text, "."), TrimLongerThan15)
        paragraphs == IF Len(double_newline_paras) > 2
                      THEN double_newline_paras
                      ELSE SelectSeq(SentenceChunks(sentences), LongerThan50)
    IN  IF paragraphs = <<>> /\ ByteLen(text) > 50 THEN <<text>> ELSE paragraphs

\* if !keyword_matches.is_empty() || !task_matches.is_empty()
IsRelevant(para, keywords, task_keywords) ==
    \/ MatchCount(keywords, to_lowercase(para)) > 0
    \/ MatchCount(task_keywords, to_lowercase(para)) > 0

\* The entries pushed for one page, in paragraph order
PageSections(doc_name, page, keywords, task_keywords) ==
    LET paras == Paragraphs(page.text)
        keep(s) == IsRelevant(s, keywords, task_keywords)
        sel == SelectSeq(paras, keep)
    IN  IF sel = <<>> THEN <<>>
        ELSE [i \in 1..Len(sel) |->
                 [document |-> doc_name, refined_text |-> Trim(sel[i]),
                  page_number |-> page.page_num]]

RECURSIVE AllPageSections(_, _, _, _)
AllPageSections(doc_name, page_texts, keywords, task_keywords) ==
    IF page_texts = <<>> THEN <<>>
    ELSE PageSections(doc_name, Head(page_texts), keywords, task_keywords)
             \o AllPageSections(doc_name, Tail(page_texts), keywords, task_keywords)

\* a_score / b_score of the closing sort_by
SectionScore(section, keywords, task_keywords) ==
    MatchCount(keywords, to_lowercase(section.refined_text))
        + MatchCount(task_keywords, to_lowercase(section.refined_text))

\* Stable sort of <<key, value>> pairs by ascending key (slice::sort_by is stable)
RECURSIVE InsertByKey(_, _)
InsertByKey(x, sorted) ==
    IF sorted = <<>> THEN <<x>>
    ELSE IF Head(sorted)[1] <= x[1] THEN <<Head(sorted)>> \o InsertByKey(x, Tail(sorted))
    ELSE <<x>> \o sorted

RECURSIVE StableSortPairs(_, _)
StableSortPairs(pairs, n) ==
    IF n = 0 THEN <<>> ELSE InsertByKey(pairs[n], StableSortPairs(pairs, n - 1))

SortedValues(pairs) ==
    IF pairs = <<>> THEN <<>>
    ELSE LET sorted == StableSortPairs(pairs, Len(pairs))
         IN  [i \in 1..Len(sorted) |-> sorted[i][2]]

\* relevant_sections.sort_by(|a, b| b_score.cmp(&a_score))
SortByScoreDesc(sections, keywords, task_keywords) ==
    IF sections = <<>> THEN <<>>
    ELSE SortedValues([i \in 1..Len(sections) |->
             <<0 - SectionScore(sections[i], keywords, task_keywords), sections[i]>>])

find_relevant_content(doc_name, page_texts, persona_str, task_str) ==
    SortByScoreDesc(
        AllPageSections(doc_name, page_texts, PersonaKeywords(persona_str),
                        TaskKeywords(task_str)),
        PersonaKeywords(persona_str), TaskKeywords(task_str))

\* ------------------------------------------------- content stream decoder
\* One Op of content.operations(resolver): op is "TextDraw", "TextDrawAdjusted",
\* "TextNewline", "MoveTextPosition" or "Other"; text is the string of a
\* TextDraw, array the items of a TextDrawAdjusted, y the vertical part of
\* the translation of a MoveTextPosition.
TextDraw(str) == [op |-> "TextDraw", text |-> str, array |-> <<>>, y |-> 0]

TextDrawAdjusted(items) == [op |-> "TextDrawAdjusted", text |-> <<>>, array |-> items, y |-> 0]

TextNewline == [op |-> "TextNewline", text |-> <<>>, array |-> <<>>, y |-> 0]

MoveTextPosition(dy) == [op |-> "MoveTextPosition", text |-> <<>>, array |-> <<>>, y |-> dy]

OtherOp == [op |-> "Other", text |-> <<>>, array |-> <<>>, y |-> 0]

\* The items of a TextDrawAdjusted array
AdjustedText(str) == [item |-> "Text", text |-> str]

AdjustedSpacing == [item |-> "Spacing", text |-> <<>>]

\* translation.y.abs()
AbsY(dy) == IF dy < 0 THEN 0 - dy ELSE dy

\* if !text_str.trim().is_empty() { text.push_str(&text_str); text.push(' ') }
PushText(str) == IF Trim(str) # <<>> THEN str \o <<" ">> ELSE <<>>

RECURSIVE PushAdjusted(_)
PushAdjusted(items) ==
    IF items = <<>> THEN <<>>
    ELSE (IF Head(items).item = "Text" THEN PushText(Head(items).text) ELSE <<" ">>)
             \o PushAdjusted(Tail(items))

\* What one operation appends to the page text
PushOp(o) ==
    CASE o.op = "TextDraw" -> PushText(o.text)
      [] o.op = "TextDrawAdjusted" -> PushAdjusted(o.array)
      [] o.op = "TextNewline" -> <<"\n">>
      [] o.op = "MoveTextPosition" -> IF AbsY(o.y) > 12 THEN <<"\n">> ELSE <<>>
      [] OTHER -> <<>>

RECURSIVE extract_text_from_content(_)
extract_text_from_content(operations) ==
    IF operations = <<>> THEN <<>>
    ELSE PushOp(Head(operations)) \o extract_text_from_content(Tail(operations))

\* Which way find_relevant_content built the paragraphs of a page text:
\* "primary" (the blank-line split), "chunks" (groups of three sentences),
\* "whole" (the whole text as one paragraph) or "none" (no paragraph)
ParagraphStrategy(text) ==
    LET double_newline_paras == SelectSeq(SplitOnBlankLine(text), LongerThan20)
        sentences == SelectSeq(SplitOn(text, "."), TrimLongerThan15)
    IN  IF Len(double_newline_paras) > 2 THEN "primary"
        ELSE IF SelectSeq(SentenceChunks(sentences), LongerThan50) # <<>> THEN "chunks"
        ELSE IF ByteLen(text) > 50 THEN "whole"
        ELSE "none"

\* ------------------------------------------------------- text extraction
\* The decoder's result for one document: opened is FALSE when
\* FileOptions::cached().open fails; pages holds, per page, whether get_page
\* succeeded and the text extract_text_from_content left in page_text.
RECURSIVE CleanedPages(_, _)
CleanedPages(pages, i) ==
    IF i > Len(pages) THEN <<>>
    ELSE LET cleaned == clean_extracted_text(pages[i].text)
         IN  (IF pages[i].ok /\ cleaned # <<>>
              THEN <<[page_num |-> i, text |-> cleaned]>>
              ELSE <<>>) \o CleanedPages(pages, i + 1)

RECURSIVE FullText(_)
FullText(page_texts) ==
    IF page_texts = <<>> THEN <<>>
    ELSE Head(page_texts).text \o <<"\n", "\n">> \o FullText(Tail(page_texts))

extract_pdf_text(decode) ==
    LET page_texts == IF decode.opened THEN CleanedPages(decode.pages, 1) ELSE <<>>
        full_text == FullText(page_texts)
    IN  [ok |-> decode.opened /\ Trim(full_text) # <<>>,
         text |-> full_text, page_texts |-> page_texts]

\* The pdftotext run: kind is what the child process did, text its stdout
extract_with_ocr(tool) ==
    [ok |-> tool.kind = "output" /\ Trim(tool.text) # <<>>, text |-> tool.text]

\* ---------------------------------------------------------------- inputs
EndToEndPage ==
    <<"O","N","B","O","A","R","D","I","N","G"," ","C","H","E","C","K","L","I","S","T",
    "\n","\n","P","l","e","a","s","e"," ","c","o","m","p","l","e","t","e"," ","t","h",
    "i","s"," ","o","n","b","o","a","r","d","i","n","g"," ","f","o","r","m"," ","b","e",
    "f","o","r","e"," ","y","o","u","r"," ","f","i","r","s","t"," ","d","a","y",".">>

InstructionsPage ==
    <<"S","i","g","n"," ","h","e","r","e"," ","i","n"," ","b","l","u","e"," ","i","n","k",
    " ","t","o","d","a","y","."," ","H","a","n","d"," ","t","h","e"," ","p","a","p","e",
    "r"," ","t","o"," ","t","h","e"," ","f","r","o","n","t"," ","d","e","s","k","."," ",
    "K","e","e","p"," ","o","n","e"," ","c","o","p","y"," ","a","t"," ","h","o","m","e",
    " ","p","l","e","a","s","e","."," ","T","h","e","n"," ","c","o","m","p","l","e","t",
    "e"," ","t","h","e"," ","o","n","b","o","a","r","d","i","n","g"," ","f","o","r","m",
    " ","b","e","f","o","r","e"," ","t","h","e"," ","f","i","r","s","t"," ","d","a","y",
    " ","o","f"," ","w","o","r","k",".">>

TitlePage ==
    <<"A","n","n","u","a","l"," ","R","e","p","o","r","t",".">>

DigitPage ==
    <<"U+0661"," ","A",".">>

RawPageTexts == {<<>>, EndToEndPage, InstructionsPage, TitlePage, DigitPage}

HrProfessional ==
    <<"H","R"," ","P","r","o","f","e","s","s","i","o","n","a","l">>

TravelPlanner ==
    <<"T","r","a","v","e","l"," ","P","l","a","n","n","e","r">>

DataAnalyst ==
    <<"D","a","t","a"," ","A","n","a","l","y","s","t">>

OnboardingTask ==
    <<"C","r","e","a","t","e"," ","o","n","b","o","a","r","d","i","n","g"," ","f","o","r",
    "m","s">>

ShortWordsTask ==
    <<"G","o"," ","t","o"," ","i","t","!">>

Requests ==
    {[persona |-> HrProfessional, task |-> OnboardingTask],
     [persona |-> TravelPlanner, task |-> OnboardingTask],
     [persona |-> DataAnalyst, task |-> ShortWordsTask]}

PageResults ==
    {[ok |-> FALSE, text |-> <<>>]} \cup {[ok |-> TRUE, text |-> t] : t \in RawPageTexts}

PageSeqs == UNION {[1..n -> PageResults] : n \in 0..MaxPages}

Decodes ==
    {[opened |-> FALSE, pages |-> <<>>]} \cup {[opened |-> TRUE, pages |-> p] : p \in PageSeqs}

NoTool == [kind |-> "not_run", text |-> <<>>]

OcrTools ==
    {[kind |-> "spawn_error", text |-> <<>>],
     [kind |-> "exit_nonzero", text |-> <<>>],
     [kind |-> "invalid_utf8", text |-> <<>>],
     [kind |-> "output", text |-> <<"\n">>],
     [kind |-> "output", text |-> EndToEndPage]}

\* The calls the loop can make, tabulated over the inputs of the model as
\* sets of <<input, result>> pairs
Lookup(pairs, key) == (CHOOSE p \in pairs : p[1] = key)[2]

ExtractedPairs == {<<decode, extract_pdf_text(decode)>> : decode \in Decodes}

Extracted(decode) == Lookup(ExtractedPairs, decode)

OcrRunPairs == {<<tool, extract_with_ocr(tool)>> : tool \in OcrTools}

OcrRun(tool) == Lookup(OcrRunPairs, tool)

HeadingTitlePairs == {<<p[1], HeadingsFrom(1, p[2].text)>> : p \in ExtractedPairs}

HeadingTitles(decode) == Lookup(HeadingTitlePairs, decode)

OcrPageTexts(tool) == <<[page_num |-> 1, text |-> OcrRun(tool).text]>>

SearchInputs ==
    {p[2].page_texts : p \in ExtractedPairs} \cup {OcrPageTexts(tool) : tool \in OcrTools}

RelevantContentPairs ==
    {<<<<doc, r, page_texts>>, find_relevant_content(doc, page_texts, r.persona, r.task)>> :
        doc \in 1..MaxDocs, r \in Requests, page_texts \in SearchInputs}

RelevantContent(doc, r, page_texts) == Lookup(RelevantContentPairs, <<doc, r, page_texts>>)

\* ------------------------------------------------------------ collection
Init ==
    /\ \E r \in Requests : persona_role = r.persona /\ job_task = r.task
    /\ n_docs \in 0..MaxDocs
    /\ docs = <<>>
    /\ pc = "loop"
    /\ extracted_sections = <<>>
    /\ subsection_analysis = <<>>
    /\ result = "running"
    /\ written = FALSE
    /\ page_text = <<>>
    /\ cleaned_text = <<>>
    /\ recleaned_text = <<>>
    /\ clean_pc = "idle"
    /\ content_ops = <<>>
    /\ page_paragraphs = <<>>
    /\ n_collections = 1
    /\ collection = 1
    /\ outputs = {}
    /\ main_result = "running"

\* The document the loop is at
doc_index == Len(docs) + 1

request == [persona |-> persona_role, task |-> job_task]

InLoop == pc = "loop" /\ Len(docs) < n_docs

\* Variant: the rank restarts at 1 in every document
NewSectionsRankPerDocument(doc, titles, already) ==
     IF titles = <<>> THEN <<>>
    ELSE [i \in 1..Len(titles) |->
             [document |-> doc, section_title |-> titles[i],
              importance_rank |-> i, page_number |-> 1]]

\* The ExtractedSection values pushed for one document's text
NewSections(doc, titles, already) ==
     IF titles = <<>> THEN <<>>
    ELSE [i \in 1..Len(titles) |->
             [document |-> doc, section_title |-> titles[i],
              importance_rank |-> already + i, page_number |-> 1]]

\* Variant: a missing PDF is logged and the loop goes on to the next document
MissingPdfSkips ==
    /\ InLoop
    /\ docs' = Append(docs, [exists |-> FALSE, decode |-> [opened |-> FALSE, pages |-> <<>>],
                              tool |-> NoTool, ocr_calls |-> 0, searched |-> FALSE])
    /\ UNCHANGED <<request_vars, pc, extracted_sections, subsection_analysis, result,
                   written, clean_vars, page_vars, main_vars>>

\* if !pdf_path.exists() { return Err(...) }
MissingPdf ==
    /\ InLoop
    /\ docs' = Append(docs, [exists |-> FALSE, decode |-> [opened |-> FALSE, pages |-> <<>>],
                              tool |-> NoTool, ocr_calls |-> 0, searched |-> FALSE])
    /\ result' = "err"
    /\ pc' = "done"
    /\ UNCHANGED <<request_vars, extracted_sections, subsection_analysis, written,
                   clean_vars, page_vars, main_vars>>

\* match extract_pdf_text: Ok((text, page_texts))
DecodeOk ==
    /\ InLoop
    /\ \E decode \in Decodes :
          /\ Extracted(decode).ok
          /\ extracted_sections' = extracted_sections
                 \o NewSections(doc_index, HeadingTitles(decode), Len(extracted_sections))
          /\ subsection_analysis' = subsection_analysis
                 \o RelevantContent(doc_index, request, Extracted(decode).page_texts)
          /\ docs' = Append(docs, [exists |-> TRUE, decode |-> decode, tool |-> NoTool,
                                        ocr_calls |-> 0, searched |-> TRUE])
    /\ UNCHANGED <<request_vars, pc, result, written, clean_vars, page_vars, main_vars>>

\* match extract_pdf_text: Err, then extract_with_ocr: Ok(ocr_text)
OcrOk ==
    /\ InLoop
    /\ \E decode \in Decodes, tool \in OcrTools :
          /\ ~Extracted(decode).ok
          /\ OcrRun(tool).ok
          /\ subsection_analysis' = subsection_analysis
                 \o RelevantContent(doc_index, request, OcrPageTexts(tool))
          /\ docs' = Append(docs, [exists |-> TRUE, decode |-> decode, tool |-> tool,
                                    ocr_calls |-> 1, searched |-> TRUE])
    /\ UNCHANGED <<request_vars, pc, extracted_sections, result, written, clean_vars,
                   page_vars, main_vars>>

\* Variant: a document whose OCR fallback fails ends the run with an error
OcrFailedAborts ==
    /\ InLoop
    /\ \E decode \in Decodes, tool \in OcrTools :
          /\ ~Extracted(decode).ok
          /\ ~OcrRun(tool).ok
          /\ docs' = Append(docs, [exists |-> TRUE, decode |-> decode, tool |-> tool,
                                    ocr_calls |-> 1, searched |-> FALSE])
    /\ result' = "err"
    /\ pc' = "done"
    /\ UNCHANGED <<request_vars, extracted_sections, subsection_analysis, written,
                   clean_vars, page_vars, main_vars>>

\* match extract_pdf_text: Err, then extract_with_ocr: Err
OcrFailed ==
    /\ InLoop
    /\ \E decode \in Decodes, tool \in OcrTools :
          /\ ~Extracted(decode).ok
          /\ ~OcrRun(tool).ok
          /\ docs' = Append(docs, [exists |-> TRUE, decode |-> decode, tool |-> tool,
                                    ocr_calls |-> 1, searched |-> FALSE])
    /\ UNCHANGED <<request_vars, pc, extracted_sections, subsection_analysis, result,
                   written, clean_vars, page_vars, main_vars>>

\* extracted_sections.sort_by_key(|s| s.importance_rank)
sort_by_rank(sections) ==
    IF sections = <<>> THEN <<>>
    ELSE SortedValues([i \in 1..Len(sections) |-> <<sections[i].importance_rank, sections[i]>>])

\* After the loop: sort, build OutputJson, write it, return Ok(())
WriteOutput ==
    /\ pc = "loop"
    /\ Len(docs) = n_docs
    /\ extracted_sections' = sort_by_rank(extracted_sections)
    /\ written' = TRUE
    /\ result' = "ok"
    /\ pc' = "done"
    /\ outputs' = outputs \cup {collection}
    /\ UNCHANGED <<request_vars, docs, subsection_analysis, clean_vars, page_vars,
                   n_collections, collection, main_result>>

Next == MissingPdf \/ DecodeOk \/ OcrOk \/ OcrFailed \/ WriteOutput

Spec == Init /\ [][Next]_vars

\* --------------------------------------------- main over the collections
\* Reading the collections directory and reading or parsing an input JSON
\* can fail too; those errors and a failing write of the output are left out.
InitMain ==
    /\ n_collections \in 0..MaxCollections
    /\ collection = IF n_collections = 0 THEN 0 ELSE 1
    /\ outputs = {}
    /\ main_result = "running"
    /\ IF n_collections = 0
       THEN persona_role = <<>> /\ job_task = <<>> /\ n_docs = 0 /\ pc = "idle"
       ELSE /\ \E r \in Requests : persona_role = r.persona /\ job_task = r.task
            /\ n_docs \in 0..MaxDocs
            /\ pc = "loop"
    /\ docs = <<>>
    /\ extracted_sections = <<>>
    /\ subsection_analysis = <<>>
    /\ result = "running"
    /\ written = FALSE
    /\ page_text = <<>>
    /\ cleaned_text = <<>>
    /\ recleaned_text = <<>>
    /\ clean_pc = "idle"
    /\ content_ops = <<>>
    /\ page_paragraphs = <<>>

\* process_pdf_collection(..)? returned Ok: the for loop takes the next collection
NextCollection ==
    /\ main_result = "running"
    /\ pc = "done"
    /\ result = "ok"
    /\ collection < n_collections
    /\ collection' = collection + 1
    /\ \E r \in Requests : persona_role' = r.persona /\ job_task' = r.task
    /\ n_docs' \in 0..MaxDocs
    /\ docs' = <<>>
    /\ pc' = "loop"
    /\ extracted_sections' = <<>>
    /\ subsection_analysis' = <<>>
    /\ result' = "running"
    /\ written' = FALSE
    /\ UNCHANGED <<n_collections, outputs, main_result, clean_vars, page_vars>>

\* process_pdf_collection(..)? returned Err: main returns it
MainReturnsErr ==
    /\ main_result = "running"
    /\ pc = "done"
    /\ result = "err"
    /\ main_result' = "err"
    /\ UNCHANGED <<collection_vars, clean_vars, page_vars, n_collections, collection, outputs>>

\* The for loop is over: Ok(())
MainReturnsOk ==
    /\ main_result = "running"
    /\ \/ n_collections = 0
       \/ pc = "done" /\ result = "ok" /\ collection = n_collections
    /\ main_result' = "ok"
    /\ UNCHANGED <<collection_vars, clean_vars, page_vars, n_collections, collection, outputs>>

NextMain ==
    \/ MissingPdf \/ DecodeOk \/ OcrOk \/ OcrFailed \/ WriteOutput
    \/ NextCollection \/ MainReturnsErr \/ MainReturnsOk

SpecMain == InitMain /\ [][NextMain]_vars

\* ------------------------------------------- the normalizer on its own
CleanAlphabet == {"a", ".", " ", "\n"}

InitClean ==
    /\ page_text \in UNION {[1..n -> CleanAlphabet] : n \in 0..MaxLen}
    /\ cleaned_text = <<>>
    /\ recleaned_text = <<>>
    /\ clean_pc = "raw"
    /\ persona_role = <<>>
    /\ job_task = <<>>
    /\ n_docs = 0
    /\ docs = <<>>
    /\ pc = "idle"
    /\ extracted_sections = <<>>
    /\ subsection_analysis = <<>>
    /\ result = "running"
    /\ written = FALSE
    /\ content_ops = <<>>
    /\ page_paragraphs = <<>>
    /\ n_collections = 0
    /\ collection = 0
    /\ outputs = {}
    /\ main_result = "running"

\* let cleaned_text = Self::clean_extracted_text(&page_text)
Normalize ==
    /\ clean_pc = "raw"
    /\ cleaned_text' = clean_extracted_text(page_text)
    /\ clean_pc' = "cleaned"
    /\ UNCHANGED <<page_text, recleaned_text, collection_vars, page_vars, main_vars>>

\* The normalizer applied to its own output
Renormalize ==
    /\ clean_pc = "cleaned"
    /\ recleaned_text' = clean_extracted_text(cleaned_text)
    /\ clean_pc' = "recleaned"
    /\ UNCHANGED <<page_text, cleaned_text, collection_vars, page_vars, main_vars>>

NextClean == Normalize \/ Renormalize

SpecClean == InitClean /\ [][NextClean]_vars

\* ------------------------------------- one page, from content to paragraphs
HarbourRun ==
    <<"H","o","t","e","l","s"," ","n","e","a","r"," ","t","h","e"," ","o","l","d"," ","h",
    "a","r","b","o","u","r">>

TrainsRun ==
    <<"B","o","o","k"," ","e","a","r","l","y","."," ","T","h","e"," ","t","r","a","i","n",
    "s"," ","f","i","l","l"," ","u","p"," ","f","a","s","t"," ","i","n"," ","s","u","m",
    "m","e","r",".">>

MenuRun ==
    <<"M","e","n","u">>

\* The text-showing operations of the pages
TextRuns ==
    {TextDraw(HarbourRun),
     TextDrawAdjusted(<<AdjustedText(TrainsRun), AdjustedSpacing>>),
     TextDraw(MenuRun)}

\* The operations met between two text runs
Separators == {MoveTextPosition(14), MoveTextPosition(-14), MoveTextPosition(12), TextNewline}

\* Operation sequences run, separator, run, ..., run with n runs
RECURSIVE RunSeqs(_)
RunSeqs(n) ==
    IF n = 1 THEN {<<r>> : r \in TextRuns}
    ELSE {s \o <<sep, r>> : s \in RunSeqs(n - 1), sep \in Separators, r \in TextRuns}

\* page.contents: None, Some with operations() failing, Some with operations
PageContents(max_runs) ==
    {[contents |-> "none", operations |-> <<>>],
     [contents |-> "error", operations |-> <<>>],
     [contents |-> "some", operations |-> <<OtherOp>>]}
        \cup {[contents |-> "some", operations |-> o] :
                 o \in UNION {RunSeqs(n) : n \in 1..max_runs}}

InitPage ==
    /\ content_ops \in PageContents(MaxRuns)
    /\ page_paragraphs = <<>>
    /\ page_text = <<>>
    /\ cleaned_text = <<>>
    /\ recleaned_text = <<>>
    /\ clean_pc = "ops"
    /\ persona_role = <<>>
    /\ job_task = <<>>
    /\ n_docs = 0
    /\ docs = <<>>
    /\ pc = "idle"
    /\ extracted_sections = <<>>
    /\ subsection_analysis = <<>>
    /\ result = "running"
    /\ written = FALSE
    /\ n_collections = 0
    /\ collection = 0
    /\ outputs = {}
    /\ main_result = "running"

\* let mut page_text = String::new(); extract_text_from_content(.., &mut page_text)
DecodeContent ==
    /\ clean_pc = "ops"
    /\ page_text' = IF content_ops.contents = "some"
                    THEN extract_text_from_content(content_ops.operations)
                    ELSE <<>>
    /\ clean_pc' = "raw"
    /\ UNCHANGED <<cleaned_text, recleaned_text, collection_vars, page_vars, main_vars>>

\* The page's cleaned text, when not empty, is an element of page_texts;
\* find_relevant_content builds its paragraphs
Segment ==
    /\ clean_pc = "cleaned"
    /\ cleaned_text # <<>>
    /\ page_paragraphs' = Paragraphs(cleaned_text)
    /\ clean_pc' = "segmented"
    /\ UNCHANGED <<page_text, cleaned_text, recleaned_text, content_ops, collection_vars,
                   main_vars>>

NextPage == DecodeContent \/ Normalize \/ Segment

SpecPage == InitPage /\ [][NextPage]_vars

\* ======================================================== properties
\* The page texts handed to find_relevant_content for logged document d
SearchedPageTexts(d) ==
    IF docs[d].ocr_calls = 0 THEN Extracted(docs[d].decode).page_texts
    ELSE OcrPageTexts(docs[d].tool)

RECURSIVE SumScores(_, _)
SumScores(entries, i) ==
    IF i > Len(entries) THEN 0
    ELSE SectionScore(entries[i], PersonaKeywords(persona_role), TaskKeywords(job_task))
             + SumScores(entries, i + 1)

\* The relevance score of a heading: the scores of the emitted paragraphs of
\* its document and page, added up
HeadingScore(h) ==
    SumScores(SelectSeq(subsection_analysis,
                        LAMBDA e : e.document = h.document /\ e.page_number = h.page_number), 1)

\* C1: every entry of subsection_analysis holds at least one persona keyword
\* and at least one task keyword (the filter is a conjunction).
C1_BothKeywordSetsMatch ==
    \A i \in DOMAIN subsection_analysis :
        LET text_lower == to_lowercase(subsection_analysis[i].refined_text)
        IN  /\ MatchCount(PersonaKeywords(persona_role), text_lower) > 0
            /\ MatchCount(TaskKeywords(job_task), text_lower) > 0

\* C2: after a run that returns Ok, the importance_rank values of the N
\* headings are exactly 1..N, with no gap and no repeat, whatever the
\* documents contributed.
C2_RanksAreOneToN ==
    result = "ok" =>
        /\ {extracted_sections[i].importance_rank : i \in DOMAIN extracted_sections}
               = 1..Len(extracted_sections)
        /\ \A i, j \in DOMAIN extracted_sections :
               i # j => extracted_sections[i].importance_rank
                            # extracted_sections[j].importance_rank

\* C2 case: a finished run with two or more headings and a document that went
\* through the OCR fallback.
C2_Witness ==
    /\ result = "ok"
    /\ Len(extracted_sections) >= 2
    /\ \E d \in DOMAIN docs : docs[d].ocr_calls = 1

\* C3: the emitted headings are ordered by descending relevance score: a
\* heading with a strictly higher score has a smaller rank, headings of equal
\* score from different documents keep the order of their documents, and the
\* rank is the 1-based position in the list.
C3_RankFollowsScore ==
    result = "ok" =>
        /\ \A i \in DOMAIN extracted_sections : extracted_sections[i].importance_rank = i
        /\ \A i, j \in DOMAIN extracted_sections :
               LET h == extracted_sections[i]
                   g == extracted_sections[j]
               IN  /\ HeadingScore(g) > HeadingScore(h)
                          => g.importance_rank < h.importance_rank
                   /\ (HeadingScore(g) = HeadingScore(h) /\ h.document < g.document)
                          => h.importance_rank < g.importance_rank

RECURSIVE EncounterOrder(_)
\* The relevant paragraphs of documents d.. in document order, then page
\* order, then paragraph order
EncounterOrder(d) ==
    IF d > Len(docs) THEN <<>>
    ELSE (IF docs[d].searched
          THEN AllPageSections(d, SearchedPageTexts(d),
                               PersonaKeywords(persona_role), TaskKeywords(job_task))
          ELSE <<>>)
         \o EncounterOrder(d + 1)

\* C4: subsection_analysis lists the entries in encounter order (documents,
\* then pages, then paragraphs within a page); nothing is re-sorted by score.
C4_EncounterOrder ==
    subsection_analysis = EncounterOrder(1)

\* C5: normalizing an already normalized page text gives the same text.
C5_CleanIsIdempotent ==
    clean_pc = "recleaned" => recleaned_text = cleaned_text

\* A page whose structural decoding gave some text
PageYieldsText(p) == p.ok /\ Trim(p.text) # <<>>

\* C6: for every existing document, OCR is invoked exactly once when the
\* structural decoding yields empty text for all pages and not at all when
\* some page yields text; after a successful OCR every entry of the document
\* has page_number 1 and the document has no heading.
C6_OcrIffAllPagesEmpty ==
    \A d \in DOMAIN docs :
        docs[d].exists =>
            LET pages == docs[d].decode.pages
                some_text == \E k \in DOMAIN pages : PageYieldsText(pages[k])
            IN  /\ ~some_text => docs[d].ocr_calls = 1
                /\ some_text => docs[d].ocr_calls = 0
                /\ (docs[d].ocr_calls = 1 /\ docs[d].searched) =>
                       /\ \A i \in DOMAIN subsection_analysis :
                              subsection_analysis[i].document = d
                                  => subsection_analysis[i].page_number = 1
                       /\ \A i \in DOMAIN extracted_sections :
                              extracted_sections[i].document # d

\* Both the structural extraction and the OCR fallback failed for document d
BothExtractionsFailed(d) ==
    docs[d].exists /\ docs[d].ocr_calls = 1 /\ ~docs[d].searched

\* C7: a document for which both extractions fail contributes no heading and
\* no entry and does not stop the run: unless a PDF file is missing, every
\* document is processed, the output is written and the run returns Ok.
C7_FailedDocumentIsSkipped ==
    /\ \A d \in DOMAIN docs :
           BothExtractionsFailed(d) =>
               /\ \A i \in DOMAIN extracted_sections : extracted_sections[i].document # d
               /\ \A i \in DOMAIN subsection_analysis : subsection_analysis[i].document # d
    /\ pc = "done" =>
           \/ /\ \E d \in DOMAIN docs : ~docs[d].exists
              /\ result = "err"
           \/ /\ \A d \in DOMAIN docs : docs[d].exists
              /\ Len(docs) = n_docs
              /\ result = "ok"
              /\ written

\* C7 case: a finished run in which the first document failed both
\* extractions and a later document still contributed a heading and an entry.
C7_Witness ==
    /\ pc = "done"
    /\ result = "ok"
    /\ written
    /\ Len(docs) >= 2
    /\ BothExtractionsFailed(1)
    /\ \E i \in DOMAIN extracted_sections : extracted_sections[i].document = 2
    /\ \E i \in DOMAIN subsection_analysis : subsection_analysis[i].document = 2

\* C8: every heading in the output has a trimmed section_title of at least 4
\* and fewer than 100 characters.
C8_TitleLengthInCharacters ==
    \A i \in DOMAIN extracted_sections :
        LET title == extracted_sections[i].section_title
        IN  /\ Trim(title) = title
            /\ Len(title) >= 4
            /\ Len(title) < 100

\* The keyword extraction as the specification words it: lowercase, split on
\* whitespace, strip non-alphanumeric characters from both ends, drop the
\* empty tokens and the tokens of one or two characters
WordsLongerThanTwo(str) ==
    LET tokens == MapTrimNonAlnum(split_whitespace(to_lowercase(str)))
    IN  {tokens[i] : i \in {k \in DOMAIN tokens : Len(tokens[k]) > 2}}

\* C9: the persona keyword set and the task keyword set used for matching are
\* the words longer than two characters of the persona string and of the task
\* string.
C9_KeywordsAreRequestWords ==
    (\E d \in DOMAIN docs : docs[d].searched) =>
        LET keywords == PersonaKeywords(persona_role)
            task_keywords == TaskKeywords(job_task)
        IN  /\ {keywords[i] : i \in DOMAIN keywords} = WordsLongerThanTwo(persona_role)
            /\ {task_keywords[i] : i \in DOMAIN task_keywords}
                   = WordsLongerThanTwo(job_task)

\* The single-page document of the end-to-end example
EndToEndRun ==
    /\ persona_role = HrProfessional
    /\ job_task = OnboardingTask
    /\ n_docs = 1
    /\ Len(docs) = 1
    /\ docs[1].exists
    /\ docs[1].decode = [opened |-> TRUE, pages |-> <<[ok |-> TRUE, text |-> EndToEndPage]>>]
    /\ result = "ok"

\* C10: for persona "HR Professional", task "Create onboarding forms" and one
\* single-page document with the text "ONBOARDING CHECKLIST", a blank line and
\* "Please complete this onboarding form before your first day.", the output
\* has exactly one heading, titled "ONBOARDING CHECKLIST" with rank 1, and
\* exactly one entry, whose refined_text contains "onboarding form".
C10_EndToEndExample ==
    EndToEndRun =>
        /\ Len(extracted_sections) = 1
        /\ extracted_sections[1].section_title = <<"O","N","B","O","A","R","D","I","N","G"," ","C","H","E","C","K","L","I","S","T">>
        /\ extracted_sections[1].importance_rank = 1
        /\ Len(subsection_analysis) = 1
        /\ Contains(subsection_analysis[1].refined_text, <<"o","n","b","o","a","r","d","i","n","g"," ","f","o","r","m">>)

\* A move-text-position operation with a vertical displacement above 12 units
IsParagraphBreak(o) == o.op = "MoveTextPosition" /\ AbsY(o.y) > 12

RECURSIVE BreakSegments(_)
\* The operations between the paragraph breaks, one sequence per segment
BreakSegments(operations) ==
    LET breaks == {i \in DOMAIN operations : IsParagraphBreak(operations[i])}
    IN  IF breaks = {} THEN <<operations>>
        ELSE LET first == SetMin(breaks)
             IN  <<SubSeq(operations, 1, first - 1)>>
                     \o BreakSegments(SubSeq(operations, first + 1, Len(operations)))

\* The text the decoder produces for one segment, trimmed
SegmentText(segment) == Trim(extract_text_from_content(segment))

\* The page has more than two paragraph breaks, each separating text runs
\* longer than 20 characters
ManyLongSegments ==
    /\ content_ops.contents = "some"
    /\ Cardinality({i \in DOMAIN content_ops.operations :
                        IsParagraphBreak(content_ops.operations[i])}) > 2
    /\ \A i \in DOMAIN BreakSegments(content_ops.operations) :
           Len(SegmentText(BreakSegments(content_ops.operations)[i])) > 20

\* C11: for a decoded page with more than two paragraph breaks (move text
\* position by more than 12 units) separating text runs longer than 20
\* characters, the paragraphs come from the primary blank-line split, one per
\* segment; the sentence-chunk fallback is used only when the primary split
\* yields at most two segments, and the whole text only when no paragraph
\* survives and the text is longer than 50 characters.
C11_PrimarySplitOnBreaks ==
    clean_pc = "segmented" =>
        /\ ManyLongSegments =>
               /\ ParagraphStrategy(cleaned_text) = "primary"
               /\ Len(page_paragraphs) = Len(BreakSegments(content_ops.operations))
        /\ ParagraphStrategy(cleaned_text) = "chunks" =>
               Len(SelectSeq(SplitOnBlankLine(cleaned_text), LongerThan20)) <= 2
        /\ ParagraphStrategy(cleaned_text) = "whole" =>
               /\ ByteLen(cleaned_text) > 50
               /\ page_paragraphs = <<cleaned_text>>

\* The state a missing PDF leaves: the run of the collection has returned an
\* error at the missing document, which was neither decoded nor given to the
\* OCR tool; no output was written for the collection; main has not
\* returned Ok
AbortedAtMissingPdf ==
    /\ pc = "done"
    /\ result = "err"
    /\ ~docs[Len(docs)].exists
    /\ ~docs[Len(docs)].decode.opened
    /\ docs[Len(docs)].tool = NoTool
    /\ docs[Len(docs)].ocr_calls = 0
    /\ ~docs[Len(docs)].searched
    /\ ~written
    /\ collection \notin outputs
    /\ outputs = 1..(collection - 1)
    /\ main_result # "ok"

\* C12: a missing PDF is a fatal abort, always: when the PDF of a document
\* does not exist, process_pdf_collection returns an error without decoding
\* the document or running OCR on it, the collection's output is not written
\* whatever the earlier documents gave, and from then on no further document
\* and no further collection is processed and nothing is written; a missing
\* PDF is never skipped.
C12_MissingPdfAborts ==
    /\ [](((\E d \in DOMAIN docs : ~docs[d].exists) \/ result = "err") => AbortedAtMissingPdf)
    /\ [][result = "err" =>
              /\ UNCHANGED <<collection_vars, n_collections, collection, outputs>>
              /\ main_result' # "ok"]_vars

\* C12 case: main has returned the error of a collection whose first document
\* was processed and whose second document has no PDF, with a further
\* collection still to come.
C12_Witness ==
    /\ main_result = "err"
    /\ collection < n_collections
    /\ Len(docs) >= 2
    /\ docs[1].searched
    /\ ~docs[Len(docs)].exists

====
